---- MODULE Spec2Model ----
(***************************************************************************)
(* Release tooling of opencode-studio: scripts/version_sync.py (the        *)
(* version synchronizer) and scripts/assert_native_target.py (the target   *)
(* validator).  Text is modelled as a sequence of one-character strings,   *)
(* so that splitting into lines, trimming and the regular expressions are  *)
(* computed character by character as the scripts compute them.            *)
(***************************************************************************)
EXTENDS Integers, Sequences, FiniteSets, TLC

VARIABLES
    host,           \* what the platform reports: [system, machine]
    disk,           \* path -> file content (bytes of a text file, or a JSON document)
    pc,             \* "idle", "write" (run_set between two writers), "check", "done"
    call,           \* the running or last operation with its arguments
    step,           \* run_set: index in Registry of the next writer
    changed_files,  \* run_set: its changed_files accumulator
    ret             \* outcome of the last operation

vars == <<host, disk, pc, call, step, changed_files, ret>>

(***************************************************************************)
(* Python str primitives                                                   *)
(***************************************************************************)
LF == "\n"
CR == "\r"
FF == "\f"
QUOTE == "\""

Digits == {"0", "1", "2", "3", "4", "5", "6", "7", "8", "9"}

UpperCase == <<"A","B","C","D","E","F","G","H","I","J","K","L","M","N","O","P","Q","R","S","T","U","V","W","X","Y","Z">>

LowerCase == <<"a","b","c","d","e","f","g","h","i","j","k","l","m","n","o","p","q","r","s","t","u","v","w","x","y","z">>

Range(s) == {s[i] : i \in 1..Len(s)}

\* The least k in lo..hi with P(k), 0 if there is none; Last: the greatest.
First(lo, hi, P(_)) ==
    IF \E k \in lo..hi : P(k)
    THEN CHOOSE k \in lo..hi : P(k) /\ \A j \in lo..(k - 1) : ~P(j)
    ELSE 0

Last(lo, hi, P(_)) ==
    IF \E k \in lo..hi : P(k)
    THEN CHOOSE k \in lo..hi : P(k) /\ \A j \in (k + 1)..hi : ~P(j)
    ELSE 0

Letters == Range(UpperCase) \cup Range(LowerCase)

\* Code-point order of the characters that occur in versions and paths.
CodePoints == <<"\t","\n","\f","\r"," ","\"","#","+","-",".","/","0","1","2","3","4","5","6","7","8","9","=">> \o UpperCase \o <<"[","]","_">> \o LowerCase

Ord(c) == CHOOSE i \in 1..Len(CodePoints) : CodePoints[i] = c

\* s < t for Python strings: lexicographic on code points, a proper prefix first.
StrLess(s, t) ==
    LET n == IF Len(s) < Len(t) THEN Len(s) ELSE Len(t)
        d == First(1, n, LAMBDA i : s[i] # t[i])
    IN  IF d = 0 THEN Len(s) < Len(t) ELSE Ord(s[d]) < Ord(t[d])

\* str.isspace for one character (the whitespace the model's alphabet holds).
WhiteSpace == {" ", "\t", LF, CR, FF}

IsSpace(c) == c \in WhiteSpace

strip(s) ==
    LET a == First(1, Len(s), LAMBDA i : ~IsSpace(s[i]))
        b == Last(1, Len(s), LAMBDA i : ~IsSpace(s[i]))
    IN  IF a = 0 THEN <<>> ELSE SubSeq(s, a, b)

startswith(s, p) == Len(p) <= Len(s) /\ SubSeq(s, 1, Len(p)) = p

endswith(s, p) == Len(p) <= Len(s) /\ SubSeq(s, Len(s) - Len(p) + 1, Len(s)) = p

\* p in s
contains(s, p) == \E i \in 1..(Len(s) - Len(p) + 1) : SubSeq(s, i, i + Len(p) - 1) = p

lowerChar(c) ==
    IF \E i \in 1..Len(UpperCase) : UpperCase[i] = c
    THEN LowerCase[CHOOSE i \in 1..Len(UpperCase) : UpperCase[i] = c]
    ELSE c

lower(s) == [i \in 1..Len(s) |-> lowerChar(s[i])]

\* s.split(sep)[0] for a one-character separator
splitFirst(s, sep) ==
    LET k == First(1, Len(s), LAMBDA i : s[i] = sep)
    IN  IF k = 0 THEN s ELSE SubSeq(s, 1, k - 1)

\* dict.get(key, default) on a dict given as a set of <<key, value>> pairs
DictGet(d, key, default) ==
    IF \E p \in d : p[1] = key THEN (CHOOSE p \in d : p[1] = key)[2] ELSE default

\* The character at index i, "" beyond the end.
CharAt(s, i) == IF i >= 1 /\ i <= Len(s) THEN s[i] ELSE ""

(***************************************************************************)
(* version_sync.py: versions, file access, the line-oriented formats       *)
(***************************************************************************)
Ok(v) == [ok |-> TRUE, val |-> v]

Err(kind) == [ok |-> FALSE, err |-> kind]

\* End (index after the match) of (0|[1-9][0-9]*) at index i of s, 0 if no match.
\* The index at or after i of the first character of s not in set, Len(s) + 1 if none.
RunEnd(s, i, set) ==
    LET k == First(i, Len(s), LAMBDA j : s[j] \notin set)
    IN  IF i > Len(s) THEN i ELSE IF k = 0 THEN Len(s) + 1 ELSE k

DigitsEnd(s, i) == RunEnd(s, i, Digits)

NumericEnd(s, i) ==
    IF CharAt(s, i) = "0" THEN i + 1
    ELSE IF CharAt(s, i) \in Digits THEN DigitsEnd(s, i + 1)
    ELSE 0

\* End of the longest run of [0-9A-Za-z.-] at index i of s.
IdentEnd(s, i) == RunEnd(s, i, Digits \cup Letters \cup {".", "-"})

\* End of an optional (<sign>[0-9A-Za-z.-]+) at index i.
OptionalPart(s, i, sign) ==
    IF CharAt(s, i) = sign /\ IdentEnd(s, i + 1) > i + 1 THEN IdentEnd(s, i + 1) ELSE i

\* SEMVER_RE.fullmatch(s)
SEMVER_RE(s) ==
    LET major == NumericEnd(s, 1)
        minor == IF major > 0 /\ CharAt(s, major) = "." THEN NumericEnd(s, major + 1) ELSE 0
        patch == IF minor > 0 /\ CharAt(s, minor) = "." THEN NumericEnd(s, minor + 1) ELSE 0
    IN  /\ patch > 0
        /\ OptionalPart(s, OptionalPart(s, patch, "-"), "+") = Len(s) + 1

\* TAG_RE.fullmatch(s)
TAG_RE(s) == s # <<>> /\ Head(s) = "v" /\ SEMVER_RE(Tail(s))

\* normalize_version without the fullmatch test
normalize_version_unchecked(raw) ==
    LET stripped == strip(raw)
    IN  Ok(IF startswith(stripped, <<"v">>) THEN Tail(stripped) ELSE stripped)

normalize_version(raw) ==
    LET stripped == strip(raw)
        candidate == IF startswith(stripped, <<"v">>) THEN Tail(stripped) ELSE stripped
    IN  IF ~SEMVER_RE(candidate) THEN Err("Invalid version") ELSE Ok(candidate)

\* os.linesep of the platform the script runs on.
os_linesep(h) == IF h.system = <<"W","i","n","d","o","w","s">> THEN <<CR, LF>> ELSE <<LF>>

\* Path.read_text: text mode with universal newlines, "\r\n" and "\r" read as "\n".
RECURSIVE UniversalNewlines(_, _, _)
UniversalNewlines(bytes, lo, hi) ==
    IF lo > hi THEN <<>>
    ELSE IF lo = hi
        THEN (IF bytes[lo] = CR THEN <<LF>>
              ELSE IF bytes[lo] = LF /\ CharAt(bytes, lo - 1) = CR THEN <<>>
              ELSE <<bytes[lo]>>)
    ELSE UniversalNewlines(bytes, lo, (lo + hi) \div 2)
         \o UniversalNewlines(bytes, ((lo + hi) \div 2) + 1, hi)

read_file(bytes) == UniversalNewlines(bytes, 1, Len(bytes))

\* Path.write_text: text mode, every "\n" written as os.linesep.
RECURSIVE TranslateNewlines(_, _, _, _)
TranslateNewlines(content, lo, hi, linesep) ==
    IF lo > hi THEN <<>>
    ELSE IF lo = hi THEN (IF content[lo] = LF THEN linesep ELSE <<content[lo]>>)
    ELSE TranslateNewlines(content, lo, (lo + hi) \div 2, linesep)
         \o TranslateNewlines(content, ((lo + hi) \div 2) + 1, hi, linesep)

write_file(content, h) == TranslateNewlines(content, 1, Len(content), os_linesep(h))

\* str.splitlines: the lines as [body, end]; "\n", "\r", "\r\n" and "\f" end a line.
RECURSIVE SplitCore(_, _)
SplitCore(s, i) ==
    LET k == First(i, Len(s), LAMBDA j : s[j] \in {LF, CR, FF})
        e == IF s[k] = CR /\ CharAt(s, k + 1) = LF THEN k + 1 ELSE k
    IN  IF i > Len(s) THEN <<>>
        ELSE IF k = 0 THEN <<[body |-> SubSeq(s, i, Len(s)), end |-> <<>>]>>
        ELSE <<[body |-> SubSeq(s, i, k - 1), end |-> SubSeq(s, k, e)]>>
             \o SplitCore(s, e + 1)

splitlines(s, keepends) ==
    LET parts == SplitCore(s, 1)
    IN  [i \in 1..Len(parts) |->
            IF keepends THEN parts[i].body \o parts[i].end ELSE parts[i].body]

split_line_ending(line) ==
    IF endswith(line, <<CR, LF>>) THEN <<SubSeq(line, 1, Len(line) - 2), <<CR, LF>>>>
    ELSE IF endswith(line, <<LF>>) THEN <<SubSeq(line, 1, Len(line) - 1), <<LF>>>>
    ELSE IF endswith(line, <<CR>>) THEN <<SubSeq(line, 1, Len(line) - 1), <<CR>>>>
    ELSE <<line, <<>>>>

\* Index of the first character at or after i that is not whitespace (\s*).
SkipSpace(s, i) == RunEnd(s, i, WhiteSpace)

\* Index of the first QUOTE at or after i, 0 if there is none.
NextQuote(s, i) == First(i, Len(s), LAMBDA j : s[j] = QUOTE)

\* The prefix  key\s*=\s*"([^"]+)"  matched at index i of s: the indices of the
\* opening and the closing quote, [ok |-> FALSE] if it does not match.
KeyValueAt(s, i, key) ==
    LET eq == SkipSpace(s, i + Len(key))
        open == SkipSpace(s, eq + 1)
        close == NextQuote(s, open + 1)
    IN  IF /\ i + Len(key) - 1 <= Len(s)
           /\ SubSeq(s, i, i + Len(key) - 1) = key
           /\ CharAt(s, eq) = "="
           /\ CharAt(s, open) = QUOTE
           /\ close > open + 1
        THEN [ok |-> TRUE, open |-> open, close |-> close]
        ELSE [ok |-> FALSE, open |-> 0, close |-> 0]

\* the reader's pattern closed with "$": nothing may follow the closing quote
ReadVersionLineAnchored(line) ==
    LET m == KeyValueAt(line, SkipSpace(line, 1), <<"v","e","r","s","i","o","n">>)
    IN  IF m.ok /\ m.close = Len(line)
        THEN Ok(SubSeq(line, m.open + 1, m.close - 1)) ELSE Err("no match")

\* re.match(r'^\s*version\s*=\s*"([^"]+)"', line): group 1
ReadVersionLine(line) ==
    LET m == KeyValueAt(line, SkipSpace(line, 1), <<"v","e","r","s","i","o","n">>)
    IN  IF m.ok THEN Ok(SubSeq(line, m.open + 1, m.close - 1)) ELSE Err("no match")

\* the writer's pattern with group 3 the closing quote alone
WriteVersionLineAnchored(body) ==
    LET m == KeyValueAt(body, SkipSpace(body, 1), <<"v","e","r","s","i","o","n">>)
    IN  IF m.ok /\ m.close = Len(body)
        THEN [ok |-> TRUE,
              g1 |-> SubSeq(body, 1, m.open),
              g2 |-> SubSeq(body, m.open + 1, m.close - 1),
              g3 |-> <<QUOTE>>]
        ELSE [ok |-> FALSE, g1 |-> <<>>, g2 |-> <<>>, g3 |-> <<>>]

\* re.match(r'^(\s*version\s*=\s*")([^"]+)(".*)$', body): groups 1, 2, 3.  "." does
\* not match "\n"; "$" matches at the end and before a final "\n".
WriteVersionLine(body) ==
    LET m == KeyValueAt(body, SkipSpace(body, 1), <<"v","e","r","s","i","o","n">>)
        rest == SubSeq(body, m.close, Len(body))
        g3 == IF endswith(rest, <<LF>>) THEN SubSeq(rest, 1, Len(rest) - 1) ELSE rest
    IN  IF m.ok /\ LF \notin Range(g3)
        THEN [ok |-> TRUE,
              g1 |-> SubSeq(body, 1, m.open),
              g2 |-> SubSeq(body, m.open + 1, m.close - 1),
              g3 |-> g3]
        ELSE [ok |-> FALSE, g1 |-> <<>>, g2 |-> <<>>, g3 |-> <<>>]

\* re.match(r'^<key>\s*=\s*"([^"]+)"$', stripped): group 1
ExactKeyValue(stripped, key) ==
    LET m == KeyValueAt(stripped, 1, key)
    IN  IF m.ok /\ (m.close = Len(stripped)
                    \/ (m.close = Len(stripped) - 1 /\ stripped[Len(stripped)] = LF))
        THEN Ok(SubSeq(stripped, m.open + 1, m.close - 1))
        ELSE Err("no match")

IsSectionHeader(stripped) == startswith(stripped, <<"[">>) /\ endswith(stripped, <<"]">>)

\* "".join(lines)
RECURSIVE JoinRange(_, _, _)
JoinRange(lines, lo, hi) ==
    IF lo > hi THEN <<>>
    ELSE IF lo = hi THEN lines[lo]
    ELSE JoinRange(lines, lo, (lo + hi) \div 2) \o JoinRange(lines, ((lo + hi) \div 2) + 1, hi)

Join(lines) == JoinRange(lines, 1, Len(lines))

RECURSIVE read_toml_loop(_, _, _)
read_toml_loop(lines, idx, in_package) ==
    IF idx > Len(lines) THEN Err("Cannot find [package] version")
    ELSE LET line == lines[idx]
             stripped == strip(line)
         IN  IF IsSectionHeader(stripped)
             THEN read_toml_loop(lines, idx + 1, stripped = <<"[","p","a","c","k","a","g","e","]">>)
             ELSE IF ~in_package THEN read_toml_loop(lines, idx + 1, in_package)
             ELSE IF ReadVersionLine(line).ok THEN ReadVersionLine(line)
             ELSE read_toml_loop(lines, idx + 1, in_package)

read_toml_package_version(bytes) ==
    read_toml_loop(splitlines(read_file(bytes), FALSE), 1, FALSE)

\* The writers return [ok, val (the bool returned), bytes (the file afterwards)].
Written(changed, bytes) == [ok |-> TRUE, val |-> changed, bytes |-> bytes]

RECURSIVE write_toml_loop(_, _, _, _, _, _)
write_toml_loop(bytes, lines, idx, in_package, new_version, h) ==
    IF idx > Len(lines) THEN Err("Cannot update [package] version")
    ELSE LET line == lines[idx]
             stripped == strip(line)
             parts == split_line_ending(line)
             match == WriteVersionLine(parts[1])
         IN  IF IsSectionHeader(stripped)
             THEN write_toml_loop(bytes, lines, idx + 1, stripped = <<"[","p","a","c","k","a","g","e","]">>,
                                  new_version, h)
             ELSE IF ~in_package \/ ~match.ok
             THEN write_toml_loop(bytes, lines, idx + 1, in_package, new_version, h)
             ELSE IF match.g2 = new_version THEN Written(FALSE, bytes)
             ELSE Written(TRUE,
                    write_file(Join([lines EXCEPT ![idx] =
                        match.g1 \o new_version \o match.g3 \o parts[2]]), h))

write_toml_package_version(bytes, new_version, h) ==
    write_toml_loop(bytes, splitlines(read_file(bytes), TRUE), 1, FALSE, new_version, h)

(***************************************************************************)
(* version_sync.py: JSON documents.  json.loads and json.dumps are the      *)
(* library's: a file is its parsed document plus its layout on disk, which  *)
(* is "dumped" once json.dumps(indent=2) + "\n" has been written.           *)
(* A JSON value is [t, s]: its type and what Python's str() makes of it.    *)
(***************************************************************************)
JAbsent == [t |-> "absent", s |-> <<>>]

JNull == [t |-> "null", s |-> <<"N","o","n","e">>]

JInt(digits) == [t |-> "int", s |-> digits]

JStr(s) == [t |-> "str", s |-> s]

\* str(data.get(key, "")).strip()
StrStrip(v) == strip(v.s)

\* the comparison of the writers made on the trimmed value, as the readers read it
PyEqStripped(v, new_version) == StrStrip(v) = new_version

\* data.get(key) == new_version, for a str new_version
PyEq(v, new_version) == v.t = "str" /\ v.s = new_version

\* packages[""] and packages: [t, version] and [t, root]
RootAbsent == [t |-> "absent", version |-> JAbsent]

RootNotDict == [t |-> "str", version |-> JAbsent]

RootDict(v) == [t |-> "dict", version |-> v]

PackagesAbsent == [t |-> "absent", root |-> RootAbsent]

PackagesNotDict == [t |-> "list", root |-> RootAbsent]

PackagesDict(r) == [t |-> "dict", root |-> r]

JsonFile(version, packages) ==
    [doc |-> [version |-> version, packages |-> packages], layout |-> "original"]

Dumped(doc) == [doc |-> doc, layout |-> "dumped"]

read_json_version(file) ==
    LET version == StrStrip(file.doc.version)
    IN  IF version = <<>> THEN Err("Cannot find JSON version field") ELSE Ok(version)

write_json_version(file, new_version) ==
    IF PyEq(file.doc.version, new_version) THEN Written(FALSE, file)
    ELSE Written(TRUE, Dumped([file.doc EXCEPT !.version = JStr(new_version)]))

\* read_package_lock_version without the comparison of the two locations
read_package_lock_version_top_level(file) ==
    LET top_level == StrStrip(file.doc.version)
    IN  IF top_level = <<>> THEN Err("Cannot find top-level version") ELSE Ok(top_level)

read_package_lock_version(file) ==
    LET packages == file.doc.packages
        top_level == StrStrip(file.doc.version)
        root_package == StrStrip(packages.root.version)
    IN  IF packages.t = "list" \/ (packages.t = "dict" /\ packages.root.t = "str")
        THEN Err("AttributeError")
        ELSE IF top_level = <<>> THEN Err("Cannot find top-level version")
        ELSE IF root_package = <<>> THEN Err("Cannot find packages[''].version")
        ELSE IF top_level # root_package THEN Err("package-lock internal mismatch")
        ELSE Ok(top_level)

write_package_lock_version(file, new_version) ==
    LET packages == file.doc.packages
        changed_top == ~PyEq(file.doc.version, new_version)
        changed_root == ~PyEq(packages.root.version, new_version)
    IN  IF packages.t # "dict" \/ packages.root.t # "dict"
        THEN Err("Cannot find packages[''] object")
        ELSE IF changed_top \/ changed_root
        THEN Written(TRUE, Dumped([version |-> JStr(new_version),
                                   packages |-> PackagesDict(RootDict(JStr(new_version)))]))
        ELSE Written(FALSE, file)

(***************************************************************************)
(* version_sync.py: the named-block lock format                            *)
(***************************************************************************)
BLOCK_MARKER == <<"[","[","p","a","c","k","a","g","e","]","]">>

None == [some |-> FALSE, v |-> <<>>]

Some(v) == [some |-> TRUE, v |-> v]

\* the block test without "and not has_source"
BlockSelectedByName(b, package_name) == b.matched_name = Some(package_name)

\* "matched_name == package_name and not has_source", of the reader and the writer
BlockSelected(b, package_name) == b.matched_name = Some(package_name) /\ ~b.has_source

\* The inner loop of read_lock_package_version, from line i (1-based).
RECURSIVE read_lock_block(_, _, _)
read_lock_block(lines, i, acc) ==
    IF i > Len(lines) \/ strip(lines[i]) = BLOCK_MARKER THEN [acc EXCEPT !.end = i]
    ELSE LET stripped == strip(lines[i])
             name_match == ExactKeyValue(stripped, <<"n","a","m","e">>)
             version_match == ExactKeyValue(stripped, <<"v","e","r","s","i","o","n">>)
         IN  read_lock_block(lines, i + 1,
                [end |-> i,
                 matched_name |-> IF name_match.ok THEN Some(name_match.val)
                                  ELSE acc.matched_name,
                 matched_version |-> IF version_match.ok THEN Some(version_match.val)
                                     ELSE acc.matched_version,
                 has_source |-> acc.has_source \/ startswith(stripped, <<"s","o","u","r","c","e"," ","="," ">>)])

RECURSIVE read_lock_loop(_, _, _)
read_lock_loop(lines, idx, package_name) ==
    IF idx > Len(lines) THEN Err("Cannot find lockfile package")
    ELSE IF strip(lines[idx]) # BLOCK_MARKER THEN read_lock_loop(lines, idx + 1, package_name)
    ELSE LET b == read_lock_block(lines, idx + 1,
                    [end |-> idx + 1, matched_name |-> None, matched_version |-> None,
                     has_source |-> FALSE])
         IN  IF BlockSelected(b, package_name)
             THEN (IF ~b.matched_version.some THEN Err("Missing lockfile version")
                   ELSE Ok(b.matched_version.v))
             ELSE read_lock_loop(lines, b.end, package_name)

read_lock_package_version(bytes, package_name) ==
    read_lock_loop(splitlines(read_file(bytes), FALSE), 1, package_name)

\* The inner loop of write_lock_package_version; version_idx 0 is None.
RECURSIVE write_lock_block(_, _, _)
write_lock_block(lines, i, acc) ==
    IF i > Len(lines) \/ strip(lines[i]) = BLOCK_MARKER THEN [acc EXCEPT !.end = i]
    ELSE LET stripped == strip(lines[i])
             name_match == ExactKeyValue(stripped, <<"n","a","m","e">>)
         IN  write_lock_block(lines, i + 1,
                [end |-> i,
                 matched_name |-> IF name_match.ok THEN Some(name_match.val)
                                  ELSE acc.matched_name,
                 version_idx |-> IF ExactKeyValue(stripped, <<"v","e","r","s","i","o","n">>).ok THEN i
                                 ELSE acc.version_idx,
                 has_source |-> acc.has_source \/ startswith(stripped, <<"s","o","u","r","c","e"," ","="," ">>)])

\* The index (1-based) of the version line the writer settles on: [ok, val] with
\* val the line index, or the error it raises.
RECURSIVE write_lock_loop(_, _, _)
write_lock_loop(lines, idx, package_name) ==
    IF idx > Len(lines) THEN Err("Cannot update lockfile package")
    ELSE IF strip(lines[idx]) # BLOCK_MARKER THEN write_lock_loop(lines, idx + 1, package_name)
    ELSE LET b == write_lock_block(lines, idx + 1,
                    [end |-> idx + 1, matched_name |-> None, version_idx |-> 0,
                     has_source |-> FALSE])
         IN  IF BlockSelected(b, package_name)
             THEN (IF b.version_idx = 0 THEN Err("Missing lockfile version")
                   ELSE Ok(b.version_idx))
             ELSE write_lock_loop(lines, b.end, package_name)

\* The version line of the block is rewritten and the file written, unless it holds
\* new_version already.
write_lock_line(bytes, lines, version_idx, parts, new_version, h) ==
    LET match == WriteVersionLine(parts[1])
    IN  IF ~match.ok THEN Err("Unexpected lockfile version format")
        ELSE IF match.g2 = new_version THEN Written(FALSE, bytes)
        ELSE Written(TRUE,
                write_file(Join([lines EXCEPT ![version_idx] =
                    match.g1 \o new_version \o match.g3 \o parts[2]]), h))

write_lock_lines(bytes, lines, found, new_version, h) ==
    IF ~found.ok THEN found
    ELSE write_lock_line(bytes, lines, found.val, split_line_ending(lines[found.val]),
                         new_version, h)

write_lock_text(bytes, lines, package_name, new_version, h) ==
    write_lock_lines(bytes, lines, write_lock_loop(lines, 1, package_name), new_version, h)

write_lock_package_version(bytes, package_name, new_version, h) ==
    write_lock_text(bytes, splitlines(read_file(bytes), TRUE), package_name, new_version, h)

(***************************************************************************)
(* version_sync.py: the registry and the top-level operations              *)
(***************************************************************************)
TOML_PACKAGE_VERSION_FILES ==
    << "server/Cargo.toml", "desktop/src-tauri/Cargo.toml",
       "desktop/src-tauri-cef/Cargo.toml" >>

JSON_VERSION_FILES ==
    << "web/package.json", "desktop/src-tauri/tauri.conf.json",
       "desktop/src-tauri/tauri.conf.full.json", "desktop/src-tauri-cef/tauri.conf.json",
       "desktop/src-tauri-cef/tauri.conf.full.json" >>

PACKAGE_LOCK_FILE == "web/package-lock.json"

LOCK_PACKAGE_VERSION_FILES ==
    << <<"Cargo.lock", <<"o","p","e","n","c","o","d","e","-","s","t","u","d","i","o">>>>,
       <<"desktop/src-tauri/Cargo.lock", <<"o","p","e","n","c","o","d","e","-","s","t","u","d","i","o","-","d","e","s","k","t","o","p">>>>,
       <<"desktop/src-tauri-cef/Cargo.lock", <<"o","p","e","n","c","o","d","e","-","s","t","u","d","i","o","-","d","e","s","k","t","o","p">>>> >>

\* The registry in the order collect_versions reads it and run_set writes it.
Registry ==
    [i \in 1..Len(TOML_PACKAGE_VERSION_FILES) |->
        [path |-> TOML_PACKAGE_VERSION_FILES[i], format |-> "toml", package_name |-> <<>>]]
    \o [i \in 1..Len(JSON_VERSION_FILES) |->
        [path |-> JSON_VERSION_FILES[i], format |-> "json", package_name |-> <<>>]]
    \o << [path |-> PACKAGE_LOCK_FILE, format |-> "package-lock", package_name |-> <<>>] >>
    \o [i \in 1..Len(LOCK_PACKAGE_VERSION_FILES) |->
        [path |-> LOCK_PACKAGE_VERSION_FILES[i][1], format |-> "lock",
         package_name |-> LOCK_PACKAGE_VERSION_FILES[i][2]]]

Paths == {Registry[i].path : i \in 1..Len(Registry)}

Entry(path) == Registry[CHOOSE i \in 1..Len(Registry) : Registry[i].path = path]

\* str(rel_path): the characters of a registry path
PathChars(path) ==
    CASE path = "server/Cargo.toml" -> <<"s","e","r","v","e","r","/","C","a","r","g","o",".","t","o","m","l">>
      [] path = "desktop/src-tauri/Cargo.toml" -> <<"d","e","s","k","t","o","p","/","s","r","c","-","t","a","u","r","i","/","C","a","r","g","o",".","t","o","m","l">>
      [] path = "desktop/src-tauri-cef/Cargo.toml" -> <<"d","e","s","k","t","o","p","/","s","r","c","-","t","a","u","r","i","-","c","e","f","/","C","a","r","g","o",".","t","o","m","l">>
      [] path = "web/package.json" -> <<"w","e","b","/","p","a","c","k","a","g","e",".","j","s","o","n">>
      [] path = "desktop/src-tauri/tauri.conf.json" -> <<"d","e","s","k","t","o","p","/","s","r","c","-","t","a","u","r","i","/","t","a","u","r","i",".","c","o","n","f",".","j","s","o","n">>
      [] path = "desktop/src-tauri/tauri.conf.full.json" ->
            <<"d","e","s","k","t","o","p","/","s","r","c","-","t","a","u","r","i","/","t","a","u","r","i",".","c","o","n","f",".","f","u","l","l",".","j","s","o","n">>
      [] path = "desktop/src-tauri-cef/tauri.conf.json" ->
            <<"d","e","s","k","t","o","p","/","s","r","c","-","t","a","u","r","i","-","c","e","f","/","t","a","u","r","i",".","c","o","n","f",".","j","s","o","n">>
      [] path = "desktop/src-tauri-cef/tauri.conf.full.json" ->
            <<"d","e","s","k","t","o","p","/","s","r","c","-","t","a","u","r","i","-","c","e","f","/","t","a","u","r","i",".","c","o","n","f",".","f","u","l","l",".","j","s","o","n">>
      [] path = "web/package-lock.json" -> <<"w","e","b","/","p","a","c","k","a","g","e","-","l","o","c","k",".","j","s","o","n">>
      [] path = "Cargo.lock" -> <<"C","a","r","g","o",".","l","o","c","k">>
      [] path = "desktop/src-tauri/Cargo.lock" -> <<"d","e","s","k","t","o","p","/","s","r","c","-","t","a","u","r","i","/","C","a","r","g","o",".","l","o","c","k">>
      [] path = "desktop/src-tauri-cef/Cargo.lock" -> <<"d","e","s","k","t","o","p","/","s","r","c","-","t","a","u","r","i","-","c","e","f","/","C","a","r","g","o",".","l","o","c","k">>

\* The reader of a registry entry on the file d holds for it.
ReadEntry(d, e) ==
    CASE e.format = "toml" -> read_toml_package_version(d[e.path])
      [] e.format = "json" -> read_json_version(d[e.path])
      [] e.format = "package-lock" -> read_package_lock_version(d[e.path])
      [] e.format = "lock" -> read_lock_package_version(d[e.path], e.package_name)

\* The writer of a registry entry.
WriteEntry(d, e, new_version, h) ==
    CASE e.format = "toml" -> write_toml_package_version(d[e.path], new_version, h)
      [] e.format = "json" -> write_json_version(d[e.path], new_version)
      [] e.format = "package-lock" -> write_package_lock_version(d[e.path], new_version)
      [] e.format = "lock" ->
            write_lock_package_version(d[e.path], e.package_name, new_version, h)

ErrIn(kind, path) == [ok |-> FALSE, err |-> kind, path |-> path]

\* The versions dict, as the sequence of its items, once every version in it has
\* matched SEMVER_RE; the error for the first that does not.
collect_validated(reads, invalid) ==
    IF invalid # 0 THEN ErrIn("Invalid semver in file", Registry[invalid].path)
    ELSE Ok([i \in 1..Len(Registry) |->
                [path |-> Registry[i].path, version |-> reads[i].val]])

\* The error of the first reader that raised, in registry order, if one did.
collect_read(reads, failed) ==
    IF failed # 0 THEN ErrIn(reads[failed].err, Registry[failed].path)
    ELSE collect_validated(reads,
            First(1, Len(Registry), LAMBDA i : ~SEMVER_RE(reads[i].val)))

collect_from(reads) ==
    collect_read(reads, First(1, Len(Registry), LAMBDA i : ~reads[i].ok))

collect_versions(d) ==
    collect_from([i \in 1..Len(Registry) |-> ReadEntry(d, Registry[i])])

\* sorted(items) for a set of distinct items under a strict total order
Sorted(items, Less(_, _)) ==
    [k \in 1..Cardinality(items) |->
        CHOOSE x \in items : Cardinality({y \in items : Less(y, x)}) = k - 1]

PathLess(p, q) == StrLess(PathChars(p), PathChars(q))

\* grouped: the set of file paths of each version
grouped_versions(versions) ==
    [v \in {versions[i].version : i \in 1..Len(versions)} |->
        {versions[i].path : i \in {j \in 1..Len(versions) : versions[j].version = v}}]

mismatch_report(grouped, order) ==
    [ok |-> FALSE, err |-> "Version mismatch detected across files",
     report |-> [k \in 1..Len(order) |->
                    [version |-> order[k], files |-> Sorted(grouped[order[k]], PathLess)]]]

ensure_grouped(versions, grouped) ==
    IF Cardinality(DOMAIN grouped) = 1 THEN Ok(versions[1].version)
    ELSE mismatch_report(grouped, Sorted(DOMAIN grouped, StrLess))

\* ensure_consistent with the report in the order of the dicts, nothing sorted
ensure_consistent_unsorted(versions) ==
    LET IntLess(a, b) == a < b
        at(v) == {i \in 1..Len(versions) : versions[i].version = v}
        firsts == Sorted({i \in 1..Len(versions) : \A j \in 1..(i - 1) :
                            versions[j].version # versions[i].version}, IntLess)
    IN  IF Len(firsts) = 1 THEN Ok(versions[1].version)
        ELSE [ok |-> FALSE, err |-> "Version mismatch detected across files",
              report |-> [k \in 1..Len(firsts) |->
                            [version |-> versions[firsts[k]].version,
                             files |-> [n \in 1..Cardinality(at(versions[firsts[k]].version)) |->
                                          versions[Sorted(at(versions[firsts[k]].version),
                                                          IntLess)[n]].path]]]]

ensure_consistent(versions) == ensure_grouped(versions, grouped_versions(versions))

\* The tag, when one is given, is trimmed and tested against TAG_RE and "v" + version.
check_tag(version, expected_tag, tag) ==
    IF expected_tag.some /\ ~TAG_RE(tag) THEN Err("Invalid tag")
    ELSE IF expected_tag.some /\ tag # <<"v">> \o version THEN Err("Tag/version mismatch")
    ELSE Ok(version)

check_version(version, expected_tag) ==
    IF ~version.ok THEN version
    ELSE check_tag(version.val, expected_tag, strip(expected_tag.v))

check_versions(versions, expected_tag) ==
    IF ~versions.ok THEN versions
    ELSE check_version(ensure_consistent(versions.val), expected_tag)

run_check(d, expected_tag) == check_versions(collect_versions(d), expected_tag)

(***************************************************************************)
(* assert_native_target.py                                                 *)
(***************************************************************************)
ARCH_MAP ==
    { <<<<"x","8","6","_","6","4">>, <<"x","8","6","_","6","4">>>>,
      <<<<"a","m","d","6","4">>, <<"x","8","6","_","6","4">>>>,
      <<<<"a","a","r","c","h","6","4">>, <<"a","a","r","c","h","6","4">>>>,
      <<<<"a","r","m","6","4">>, <<"a","a","r","c","h","6","4">>>>,
      <<<<"a","r","m","v","7","l">>, <<"a","r","m","v","7">>>>,
      <<<<"a","r","m","v","7">>, <<"a","r","m","v","7">>>> }

OS_MAP ==
    { <<<<"l","i","n","u","x">>, <<"l","i","n","u","x">>>>,
      <<<<"d","a","r","w","i","n">>, <<"d","a","r","w","i","n">>>>,
      <<<<"w","i","n","d","o","w","s">>, <<"w","i","n","d","o","w","s">>>> }

UNKNOWN == <<"u","n","k","n","o","w","n">>

target_os(target) ==
    IF contains(target, <<"w","i","n","d","o","w","s">>) THEN <<"w","i","n","d","o","w","s">>
    ELSE IF contains(target, <<"a","p","p","l","e","-","d","a","r","w","i","n">>) THEN <<"d","a","r","w","i","n">>
    ELSE IF contains(target, <<"l","i","n","u","x">>) THEN <<"l","i","n","u","x">>
    ELSE UNKNOWN

target_arch(target) ==
    DictGet(ARCH_MAP, splitFirst(target, "-"), splitFirst(target, "-"))

host_os(h) == DictGet(OS_MAP, lower(h.system), lower(h.system))

host_arch(h) == DictGet(ARCH_MAP, lower(h.machine), lower(h.machine))

ErrUnknownOS(target) == [kind |-> "unsupported target OS in triple", a |-> target, b |-> <<>>]

ErrOSMismatch(t, h) == [kind |-> "target OS does not match runner OS", a |-> t, b |-> h]

ErrArchMismatch(t, h) == [kind |-> "target arch does not match runner arch", a |-> t, b |-> h]

\* main() giving up at the first error it finds
native_target_main_first_error(target, h) ==
    IF target_os(target) = UNKNOWN
    THEN [code |-> 1, errors |-> <<ErrUnknownOS(target)>>]
    ELSE IF target_os(target) # host_os(h)
    THEN [code |-> 1, errors |-> <<ErrOSMismatch(target_os(target), host_os(h))>>]
    ELSE IF target_arch(target) # host_arch(h)
    THEN [code |-> 1, errors |-> <<ErrArchMismatch(target_arch(target), host_arch(h))>>]
    ELSE [code |-> 0, errors |-> <<>>]

\* main() of assert_native_target.py: the exit code and the ERROR lines, in order.
native_target_main(target, h) ==
    LET t_os == target_os(target)
        t_arch == target_arch(target)
        h_os == host_os(h)
        h_arch == host_arch(h)
        errors == (IF t_os = UNKNOWN THEN <<ErrUnknownOS(target)>> ELSE <<>>)
                  \o (IF t_os # h_os THEN <<ErrOSMismatch(t_os, h_os)>> ELSE <<>>)
                  \o (IF t_arch # h_arch THEN <<ErrArchMismatch(t_arch, h_arch)>> ELSE <<>>)
    IN  [code |-> IF errors # <<>> THEN 1 ELSE 0, errors |-> errors]

\* Target triples given on the command line.
Targets ==
    { <<"x","8","6","_","6","4","-","p","c","-","w","i","n","d","o","w","s","-","m","s","v","c">>,
      <<"a","a","r","c","h","6","4","-","u","n","k","n","o","w","n","-","l","i","n","u","x","-","g","n","u">>,
      <<"a","a","r","c","h","6","4","-","a","p","p","l","e","-","d","a","r","w","i","n">>,
      <<"a","r","m","6","4","-","a","p","p","l","e","-","i","o","s">>,
      <<"a","r","m","v","7","-","u","n","k","n","o","w","n","-","l","i","n","u","x","-","g","n","u","e","a","b","i","h","f">>,
      <<"a","m","d","6","4","-","u","n","k","n","o","w","n","-","f","r","e","e","b","s","d">>,
      <<"u","n","k","n","o","w","n","-","p","c","-","w","i","n","d","o","w","s","-","g","n","u">>,
      <<"r","i","s","c","v","6","4","g","c","-","u","n","k","n","o","w","n","-","l","i","n","u","x","-","g","n","u">> }

\* platform.system() and platform.machine() reports.
Systems == { <<"L","i","n","u","x">>, <<"D","a","r","w","i","n">>, <<"W","i","n","d","o","w","s">>, <<"F","r","e","e","B","S","D">>, <<"u","n","k","n","o","w","n">>, <<>> }

Machines == { <<"x","8","6","_","6","4">>, <<"A","M","D","6","4">>, <<"a","r","m","6","4">>, <<"a","a","r","c","h","6","4">>, <<"a","r","m","v","7","l">>, <<"u","n","k","n","o","w","n">>, <<"r","i","s","c","v","6","4","g","c">> }

NoCall == [op |-> "none"]

NoRet == [op |-> "none"]

InitTarget ==
    /\ host \in [system : Systems, machine : Machines]
    /\ disk = <<>>
    /\ pc = "idle"
    /\ call = NoCall
    /\ step = 0
    /\ changed_files = <<>>
    /\ ret = NoRet

AssertNativeTarget ==
    /\ pc = "idle"
    /\ \E target \in Targets :
        /\ call' = [op |-> "assert_native_target", target |-> target]
        /\ ret' = native_target_main(target, host)
    /\ pc' = "done"
    /\ UNCHANGED <<host, disk, step, changed_files>>

NextTarget == AssertNativeTarget

SpecTarget == InitTarget /\ [][NextTarget]_vars

(***************************************************************************)
(* One file of one format, under its reader and its writer                 *)
(***************************************************************************)
MaxTomlLines == 3

MaxBlocks == 2

TomlBodies ==
    { <<"[","p","a","c","k","a","g","e","]">>,
      <<"[","d","]">>,
      <<"v","e","r","s","i","o","n"," ","="," ","\"","1",".","0",".","0","\"">>,
      <<" ","v","e","r","s","i","o","n","=","\"","1",".","0",".","1","\""," ","#"," ","\"","c","\"">>,
      <<"v","e","r","s","i","o","n"," ","="," ","1">> }

\* Line-ending styles of a generated text file: "\n" throughout, "\r\n" throughout,
\* or "\r", "\n", "\r\n" in turn with the last line unterminated.
LineStyles == {"lf", "crlf", "mixed"}

LineEnding(i, style) ==
    IF style = "lf" THEN <<LF>>
    ELSE IF style = "crlf" THEN <<CR, LF>>
    ELSE <<<<CR>>, <<LF>>, <<CR, LF>>>>[((i - 1) % 3) + 1]

\* The text of the lines with these bodies in this style.
StyledText(bodies, style) ==
    Join([i \in 1..Len(bodies) |->
            IF i = Len(bodies) /\ style = "mixed" THEN bodies[i]
            ELSE bodies[i] \o LineEnding(i, style)])

TomlTexts ==
    UNION { { StyledText(bodies, style) :
                bodies \in [1..n -> TomlBodies], style \in LineStyles } :
            n \in 1..MaxTomlLines }

DigitSeq == <<"0","1","2","3","4","5","6","7","8","9">>

\* Block k of a generated lock file holds version k.0.0.
BlockVersion(k) == <<DigitSeq[k + 1]>> \o <<".","0",".","0">>

PackageNames == { <<"p">>, <<"q">> }

\* The blocks of a generated lock file: a block of the workspace with and without
\* its version line, a block from a registry with its source line written
\* "source = ..." or "source=...", and a block of the other package.
BlockShapes ==
    { [name |-> <<"p">>, version |-> TRUE, source |-> "none"],
      [name |-> <<"p">>, version |-> FALSE, source |-> "none"],
      [name |-> <<"p">>, version |-> TRUE, source |-> "spaced"],
      [name |-> <<"p">>, version |-> TRUE, source |-> "tight"],
      [name |-> <<"q">>, version |-> TRUE, source |-> "none"] }

\* The lines of block k: the marker, name, version and source lines.  The mixed
\* style indents the fields and leaves a trailing blank.
BlockLines(shape, k, style) ==
    LET pad(body) == IF style = "mixed" THEN <<"\t">> \o body \o <<" ">> ELSE body
    IN  <<BLOCK_MARKER, pad(<<"n","a","m","e"," ","="," ","\"">> \o shape.name \o <<QUOTE>>)>>
        \o (IF shape.version
            THEN <<pad(<<"v","e","r","s","i","o","n"," ","="," ","\"">> \o BlockVersion(k) \o <<QUOTE>>)>> ELSE <<>>)
        \o (IF shape.source = "spaced" THEN <<pad(<<"s","o","u","r","c","e"," ","="," ","\"","r","\"">>)>>
            ELSE IF shape.source = "tight" THEN <<pad(<<"s","o","u","r","c","e","=","\"","r","\"">>)>>
            ELSE <<>>)

\* A lock file: the lock format's own "version = 3" line first (the mixed style
\* starts with a block at once), then the blocks.
LockText(shapes, style) ==
    LET RECURSIVE All(_)
        All(k) == IF k > Len(shapes) THEN <<>>
                  ELSE BlockLines(shapes[k], k, style) \o All(k + 1)
    IN  StyledText((IF style # "mixed" THEN <<<<"v","e","r","s","i","o","n"," ","="," ","3">>>> ELSE <<>>) \o All(1),
                   style)

LockTexts ==
    UNION { { LockText(shapes, style) :
                shapes \in [1..n -> BlockShapes], style \in LineStyles } :
            n \in 1..MaxBlocks }

JsonVersions ==
    { JAbsent, JNull, JInt(<<"1">>), JStr(<<>>), JStr(<<"1",".","0",".","0">>),
      JStr(<<" ","1",".","0",".","0"," ">>), JStr(<<"1",".","0",".","1">>) }

JsonDocs == { JsonFile(v, PackagesAbsent) : v \in JsonVersions }

PackageLockDocs ==
    { JsonFile(v, p) :
        v \in JsonVersions,
        p \in {PackagesAbsent, PackagesNotDict, PackagesDict(RootAbsent),
               PackagesDict(RootNotDict)}
              \cup { PackagesDict(RootDict(r)) : r \in JsonVersions } }

WriteVersions == { <<"1",".","0",".","0">>, <<"1",".","0",".","1">> }

\* The platforms the synchronizer runs on.
SyncHosts == [system : {<<"L","i","n","u","x">>, <<"W","i","n","d","o","w","s">>}, machine : {<<"x","8","6","_","6","4">>}]

TOML_PATH == "Cargo.toml"

JSON_PATH == "package.json"

PACKAGE_LOCK_PATH == "package-lock.json"

LOCK_PATH == "Cargo.lock"

InitFile ==
    /\ host \in SyncHosts
    /\ \/ \E text \in TomlTexts : disk = (TOML_PATH :> text)
       \/ \E doc \in JsonDocs : disk = (JSON_PATH :> doc)
       \/ \E doc \in PackageLockDocs : disk = (PACKAGE_LOCK_PATH :> doc)
       \/ \E text \in LockTexts : disk = (LOCK_PATH :> text)
    /\ pc = "idle"
    /\ call = NoCall
    /\ step = 0
    /\ changed_files = <<>>
    /\ ret = NoRet

\* What a caller of a writer sees: the bool returned, or the error raised.
Outcome(r) == IF r.ok THEN [ok |-> TRUE, changed |-> r.val] ELSE r

\* A reader called on path.
Read(op, path, package_name, r) ==
    /\ call' = [op |-> op, path |-> path, package_name |-> package_name]
    /\ ret' = r
    /\ UNCHANGED <<host, disk, pc, step, changed_files>>

\* A writer called on path: the file is replaced when the writer wrote it.
Write(op, path, package_name, new_version, r) ==
    /\ call' = [op |-> op, path |-> path, package_name |-> package_name,
                new_version |-> new_version, before |-> disk[path]]
    /\ ret' = Outcome(r)
    /\ disk' = IF r.ok /\ r.val THEN [disk EXCEPT ![path] = r.bytes] ELSE disk
    /\ UNCHANGED <<host, pc, step, changed_files>>

ReadToml ==
    /\ TOML_PATH \in DOMAIN disk
    /\ Read("read_toml_package_version", TOML_PATH, <<>>,
            read_toml_package_version(disk[TOML_PATH]))

WriteToml ==
    /\ TOML_PATH \in DOMAIN disk
    /\ \E v \in WriteVersions :
        Write("write_toml_package_version", TOML_PATH, <<>>, v,
              write_toml_package_version(disk[TOML_PATH], v, host))

ReadJson ==
    /\ JSON_PATH \in DOMAIN disk
    /\ Read("read_json_version", JSON_PATH, <<>>, read_json_version(disk[JSON_PATH]))

WriteJson ==
    /\ JSON_PATH \in DOMAIN disk
    /\ \E v \in WriteVersions :
        Write("write_json_version", JSON_PATH, <<>>, v,
              write_json_version(disk[JSON_PATH], v))

ReadPackageLock ==
    /\ PACKAGE_LOCK_PATH \in DOMAIN disk
    /\ Read("read_package_lock_version", PACKAGE_LOCK_PATH, <<>>,
            read_package_lock_version(disk[PACKAGE_LOCK_PATH]))

WritePackageLock ==
    /\ PACKAGE_LOCK_PATH \in DOMAIN disk
    /\ \E v \in WriteVersions :
        Write("write_package_lock_version", PACKAGE_LOCK_PATH, <<>>, v,
              write_package_lock_version(disk[PACKAGE_LOCK_PATH], v))

ReadLock ==
    /\ LOCK_PATH \in DOMAIN disk
    /\ \E name \in PackageNames :
        Read("read_lock_package_version", LOCK_PATH, name,
             read_lock_package_version(disk[LOCK_PATH], name))

WriteLock ==
    /\ LOCK_PATH \in DOMAIN disk
    /\ \E name \in PackageNames, v \in WriteVersions :
        Write("write_lock_package_version", LOCK_PATH, name, v,
              write_lock_package_version(disk[LOCK_PATH], name, v, host))

NextFile ==
    \/ ReadToml
    \/ WriteToml
    \/ ReadJson
    \/ WriteJson
    \/ ReadPackageLock
    \/ WritePackageLock
    \/ ReadLock
    \/ WriteLock

SpecFile == InitFile /\ [][NextFile]_vars

(***************************************************************************)
(* The whole registry: run_check and run_set on a tree of the twelve files. *)
(* The tree starts as the base tree, every file at 1.0.0, with at most      *)
(* MaxDeviations files replaced by another layout, another version, a       *)
(* non-semver version or a file its reader rejects.                         *)
(***************************************************************************)
MaxDeviations == 1

TomlFile(line, style) == StyledText(<<<<"[","p","a","c","k","a","g","e","]">>, line>>, style)

\* One own block alone; with a block of the same name from a registry after it
\* and, for "other", before it, so that the own block holds 2.0.0.
LockFile(package_name, variant) ==
    LET own == [name |-> package_name, version |-> TRUE, source |-> "none"]
        sourced == [name |-> package_name, version |-> TRUE, source |-> "spaced"]
    IN  CASE variant = "base" -> LockText(<<own, sourced>>, "lf")
          [] variant = "layout" -> LockText(<<own, sourced>>, "mixed")
          [] variant = "other" -> LockText(<<sourced, own>>, "crlf")
          [] variant = "broken" ->
                LockText(<<[own EXCEPT !.version = FALSE]>>, "lf")

PackageLock(version, root) == JsonFile(JStr(version), PackagesDict(RootDict(JStr(root))))

Variants(format) ==
    CASE format = "toml" -> {"layout", "other", "nonsemver", "broken"}
      [] format = "json" -> {"layout", "other", "broken"}
      [] format = "package-lock" -> {"other", "mismatch", "mismatch-nonsemver", "broken"}
      [] format = "lock" -> {"layout", "other", "broken"}

TomlVariant(variant) ==
    CASE variant = "base" -> TomlFile(<<"v","e","r","s","i","o","n"," ","="," ","\"","1",".","0",".","0","\"">>, "lf")
      [] variant = "layout" -> TomlFile(<<" ","v","e","r","s","i","o","n","=","\"","1",".","0",".","0","\""," ","#"," ","\"","c","\"">>, "crlf")
      [] variant = "other" -> TomlFile(<<"v","e","r","s","i","o","n"," ","="," ","\"","1",".","0",".","1","\"">>, "lf")
      [] variant = "nonsemver" -> TomlFile(<<"v","e","r","s","i","o","n"," ","="," ","\"","1",".","0","\"">>, "lf")
      [] variant = "broken" -> TomlFile(<<"n","a","m","e"," ","="," ","\"","x","\"">>, "lf")

JsonVariant(variant) ==
    CASE variant = "base" -> JsonFile(JStr(<<"1",".","0",".","0">>), PackagesAbsent)
      [] variant = "layout" -> JsonFile(JStr(<<" ","1",".","0",".","0"," ">>), PackagesAbsent)
      [] variant = "other" -> JsonFile(JStr(<<"1",".","0",".","1">>), PackagesAbsent)
      [] variant = "broken" -> JsonFile(JAbsent, PackagesAbsent)

PackageLockVariant(variant) ==
    CASE variant = "base" -> PackageLock(<<"1",".","0",".","0">>, <<"1",".","0",".","0">>)
      [] variant = "other" -> PackageLock(<<"1",".","0",".","1">>, <<"1",".","0",".","1">>)
      [] variant = "mismatch" -> PackageLock(<<"1",".","0",".","0">>, <<"1",".","0",".","1">>)
      [] variant = "mismatch-nonsemver" -> PackageLock(<<"1",".","0">>, <<"1",".","0",".","1">>)
      [] variant = "broken" -> JsonFile(JStr(<<"1",".","0",".","0">>), PackagesDict(RootAbsent))

FileVariant(e, variant) ==
    CASE e.format = "toml" -> TomlVariant(variant)
      [] e.format = "json" -> JsonVariant(variant)
      [] e.format = "package-lock" -> PackageLockVariant(variant)
      [] e.format = "lock" -> LockFile(e.package_name, variant)

DeviationSets == {S \in SUBSET Paths : Cardinality(S) <= MaxDeviations}

Trees ==
    UNION { { [p \in Paths |-> FileVariant(Entry(p), IF p \in S THEN pick[p] ELSE "base")] :
                pick \in {f \in [S -> {"layout", "other", "nonsemver", "mismatch",
                                        "mismatch-nonsemver", "broken"}] :
                            \A p \in S : f[p] \in Variants(Entry(p).format)} } :
            S \in DeviationSets }

\* version_input of "set": a new version, one with the "v" prefix and blanks
\* around it, and one that is no semver.
VersionInputs == { <<"1",".","0",".","1">>, <<" ","v","1",".","0",".","0">>, <<"1",".","0">> }

\* --tag: absent, matching 1.0.1, matching 1.0.0 once trimmed, malformed.
Tags == { None, Some(<<"v","1",".","0",".","1">>), Some(<<" ","v","1",".","0",".","0"," ">>), Some(<<"1",".","0",".","1">>) }

Init ==
    /\ host \in SyncHosts
    /\ disk \in Trees
    /\ pc = "idle"
    /\ call = NoCall
    /\ step = 0
    /\ changed_files = <<>>
    /\ ret = NoRet

\* "check": run_check on the tree.
RunCheck ==
    /\ pc = "idle"
    /\ \E expected_tag \in Tags :
        /\ call' = [op |-> "run_check", expected_tag |-> expected_tag, before |-> disk]
        /\ ret' = run_check(disk, expected_tag)
    /\ pc' = "done"
    /\ UNCHANGED <<host, disk, step, changed_files>>

\* "set": run_set normalizes version_input before anything is written.
RunSetNormalize ==
    /\ pc = "idle"
    /\ \E version_input \in VersionInputs, expected_tag \in Tags :
        LET new_version == normalize_version(version_input)
        IN  /\ call' = [op |-> "run_set", version_input |-> version_input,
                        expected_tag |-> expected_tag, before |-> disk]
            /\ IF new_version.ok
               THEN pc' = "write" /\ step' = 1 /\ ret' = NoRet
               ELSE pc' = "done" /\ step' = 0 /\ ret' = new_version
    /\ changed_files' = <<>>
    /\ UNCHANGED <<host, disk>>

\* The writer of entry e returned r: the path is appended to changed_files when it
\* returned True; the error it raised ends the run.
WriterReturned(e, r) ==
    IF ~r.ok
    THEN /\ ret' = ErrIn(r.err, e.path)
         /\ pc' = "done"
         /\ UNCHANGED <<disk, step, changed_files>>
    ELSE /\ disk' = IF r.val THEN [disk EXCEPT ![e.path] = r.bytes] ELSE disk
         /\ changed_files' = IF r.val THEN Append(changed_files, e.path)
                             ELSE changed_files
         /\ step' = step + 1
         /\ pc' = IF step = Len(Registry) THEN "check" ELSE "write"
         /\ ret' = ret

\* run_set calls the writer of the next registry entry.
RunSetWrite ==
    /\ pc = "write"
    /\ WriterReturned(Registry[step],
            WriteEntry(disk, Registry[step], normalize_version(call.version_input).val,
                       host))
    /\ UNCHANGED <<host, call>>

\* run_set ends with run_check on the tree as written.
RunSetCheck ==
    /\ pc = "check"
    /\ ret' = run_check(disk, call.expected_tag)
    /\ pc' = "done"
    /\ UNCHANGED <<host, disk, call, step, changed_files>>

Next ==
    \/ RunCheck
    \/ RunSetNormalize
    \/ RunSetWrite
    \/ RunSetCheck

Spec == Init /\ [][Next]_vars

WriteOps ==
    { "write_toml_package_version", "write_json_version", "write_package_lock_version",
      "write_lock_package_version" }

LineWriteOps == { "write_toml_package_version", "write_lock_package_version" }

\* The reader of the format a writer call c wrote, applied to content.
ReadBack(c, content) ==
    CASE c.op = "write_toml_package_version" -> read_toml_package_version(content)
      [] c.op = "write_json_version" -> read_json_version(content)
      [] c.op = "write_package_lock_version" -> read_package_lock_version(content)
      [] c.op = "write_lock_package_version" ->
            read_lock_package_version(content, c.package_name)

\* new is old with the text between one pair of quotes replaced by v, and nothing
\* else changed.
OnlyQuotedValueReplaced(old, new, v) ==
    \E open \in {i \in 1..Len(old) : old[i] = QUOTE} :
        LET close == NextQuote(old, open + 1)
        IN  /\ close > open + 1
            /\ new = SubSeq(old, 1, open) \o v \o SubSeq(old, close, Len(old))

\* C3: a changing write of a line-oriented writer (TOML manifest, lock file) alters
\* only the text between the quotes of one version line; every other byte of the
\* file, the line terminators included, is as before the write.
C3_SurgicalLineEdit ==
    (call.op \in LineWriteOps /\ ret.ok /\ ret.changed)
        => OnlyQuotedValueReplaced(call.before, disk[call.path], call.new_version)

\* C4: a writer called with the value the reader returns for the same file reports
\* no change and leaves the file as it was.
C4_ReadThenWriteIsNoChange ==
    (call.op \in WriteOps /\ ReadBack(call, call.before) = Ok(call.new_version))
        => (ret.ok /\ ~ret.changed /\ disk[call.path] = call.before)

\* C5: after a writer succeeded with a valid semver V, the reader of the format
\* returns exactly V for the same file (and package name).
C5_WriteThenRead ==
    (call.op \in WriteOps /\ ret.ok /\ SEMVER_RE(call.new_version))
        => ReadBack(call, disk[call.path]) = Ok(call.new_version)

\* A changing write of each format has been read back.
C5_Witness ==
    /\ call.op = "write_lock_package_version"
    /\ ret.ok /\ ret.changed
    /\ host.system = <<"W","i","n","d","o","w","s">>
    /\ ReadBack(call, call.before).ok
    /\ ReadBack(call, call.before).val # call.new_version
    /\ ReadBack(call, disk[call.path]) = Ok(call.new_version)

\* The lock format as the specification words it, over the lines of the file.
Markers(lines) == {i \in 1..Len(lines) : strip(lines[i]) = BLOCK_MARKER}

\* The lines of the block whose marker is line m.
BlockBody(lines, m) ==
    {i \in (m + 1)..Len(lines) : \A k \in Markers(lines) : k <= m \/ k > i}

\* The value of the last line of the block with this key, None if it has none.
BlockField(lines, m, key) ==
    LET hits == {i \in BlockBody(lines, m) : ExactKeyValue(strip(lines[i]), key).ok}
    IN  IF hits = {} THEN None
        ELSE Some(ExactKeyValue(
                strip(lines[CHOOSE i \in hits : \A j \in hits : j <= i]), key).val)

HasSourceField(lines, m) ==
    \E i \in BlockBody(lines, m) : startswith(strip(lines[i]), <<"s","o","u","r","c","e"," ","="," ">>)

\* The marker of the first block named package_name that has no source field, 0 if
\* there is none.
FirstOwnBlock(lines, package_name) ==
    LET own == {m \in Markers(lines) :
                    /\ BlockField(lines, m, <<"n","a","m","e">>) = Some(package_name)
                    /\ ~HasSourceField(lines, m)}
    IN  IF own = {} THEN 0 ELSE CHOOSE m \in own : \A k \in own : m <= k

LinesOf(bytes) == splitlines(read_file(bytes), FALSE)

\* C6: the lock reader returns the version of the first block, in file order, whose
\* name is the requested one and that has no source field, and the lock writer
\* rewrites a line of that block only; a block with a source field is never the
\* one read or rewritten, and with no such block both fail.
C6_SourceBlocksNeverSelected ==
    /\ call.op = "read_lock_package_version" =>
        LET lines == LinesOf(disk[call.path])
            m == FirstOwnBlock(lines, call.package_name)
        IN  /\ ret.ok => (m # 0 /\ BlockField(lines, m, <<"v","e","r","s","i","o","n">>) = Some(ret.val))
            /\ m = 0 => (~ret.ok /\ ret.err = "Cannot find lockfile package")
    /\ call.op = "write_lock_package_version" =>
        LET old == LinesOf(call.before)
            new == LinesOf(disk[call.path])
            m == FirstOwnBlock(old, call.package_name)
        IN  /\ m = 0 => (~ret.ok /\ ret.err = "Cannot update lockfile package")
            /\ ret.ok =>
                /\ m # 0
                /\ Len(new) = Len(old)
                /\ \A i \in 1..Len(old) : i \notin BlockBody(old, m) => new[i] = old[i]
                /\ BlockField(new, m, <<"v","e","r","s","i","o","n">>) = Some(call.new_version)
                /\ \A k \in Markers(old) :
                        HasSourceField(old, k) =>
                            \A i \in BlockBody(old, k) : new[i] = old[i]

\* The requested package is read from, or written to, a later block although an
\* earlier block of the same name has a source field.
C6_Witness ==
    /\ call.op = "write_lock_package_version"
    /\ ret.ok /\ ret.changed
    /\ LET old == LinesOf(call.before)
           m == FirstOwnBlock(old, call.package_name)
       IN  \E k \in Markers(old) :
            /\ k < m
            /\ BlockField(old, k, <<"n","a","m","e">>) = Some(call.package_name)
            /\ HasSourceField(old, k)
            /\ BlockField(old, k, <<"v","e","r","s","i","o","n">>).some

\* The version a file stores for its entry is v: the value the reader of a text
\* format returns, the version field of a JSON document, both version fields of
\* package-lock.json.
StoredIs(e, content, v) ==
    CASE e.format = "toml" -> read_toml_package_version(content) = Ok(v)
      [] e.format = "json" -> content.doc.version = JStr(v)
      [] e.format = "package-lock" ->
            /\ content.doc.version = JStr(v)
            /\ content.doc.packages.t = "dict"
            /\ content.doc.packages.root = RootDict(JStr(v))
      [] e.format = "lock" -> read_lock_package_version(content, e.package_name) = Ok(v)

SetDone == pc = "done" /\ call.op = "run_set"

CheckDone == pc = "done" /\ call.op = "run_check"

AllWritersRan == step > Len(Registry)

\* raw with the blanks around it and one leading "v" taken off
Candidate(raw) ==
    IF startswith(strip(raw), <<"v">>) THEN Tail(strip(raw)) ELSE strip(raw)

TagErrors == {"Invalid tag", "Tag/version mismatch"}

\* tag is "v" and a semver
WellFormedTag(tag) == tag # <<>> /\ Head(tag) = "v" /\ SEMVER_RE(Tail(tag))

\* C1: when run_set(V, tag) returns, every registry file reads back normalize(V),
\* package-lock.json in both of its locations, the version returned is normalize(V),
\* and changed_files lists, once each, exactly the files whose stored version was
\* not normalize(V) before the call.
C1_SetPostcondition ==
    (SetDone /\ ret.ok) =>
        LET v == Candidate(call.version_input)
        IN  /\ SEMVER_RE(v)
            /\ ret.val = v
            /\ \A i \in 1..Len(Registry) : ReadEntry(disk, Registry[i]) = Ok(v)
            /\ StoredIs(Entry(PACKAGE_LOCK_FILE), disk[PACKAGE_LOCK_FILE], v)
            /\ \A p \in Paths :
                (p \in Range(changed_files)) <=> ~StoredIs(Entry(p), call.before[p], v)
            /\ Cardinality(Range(changed_files)) = Len(changed_files)

\* A successful set that changed some files and left another, already at the new
\* version, out of the list.
C1_Witness ==
    /\ SetDone /\ ret.ok
    /\ changed_files # <<>>
    /\ \E p \in Paths :
        /\ p \notin Range(changed_files)
        /\ disk[p] = call.before[p]

\* All registry files report one common version.
Consistent(d) ==
    /\ ReadEntry(d, Registry[1]).ok
    /\ \A i \in 1..Len(Registry) : ReadEntry(d, Registry[i]) = ReadEntry(d, Registry[1])

\* C2: when the registry files report one common version before run_set and
\* run_set fails, the registry files report one common version afterwards.
C2_FailedSetKeepsConsistency ==
    (SetDone /\ ~ret.ok /\ Consistent(call.before)) => Consistent(disk)

\* A set on a consistent tree fails after files were written.
C2_Witness ==
    /\ SetDone /\ ~ret.ok
    /\ Consistent(call.before)
    /\ disk # call.before
    /\ Consistent(disk)

\* C7: with every file read and valid semver, run_check fails with the report of the
\* distinct versions, each with its files, versions and files ascending, when the
\* files hold more than one version; when they all hold V it returns V without a
\* tag, fails with the invalid-tag error for a tag that trimmed is not v<semver>,
\* with the tag/version-mismatch error for a well-formed tag other than "v" + V, and
\* returns V otherwise.
C7_CheckOutcome ==
    (CheckDone /\ \A i \in 1..Len(Registry) :
                    /\ ReadEntry(disk, Registry[i]).ok
                    /\ SEMVER_RE(ReadEntry(disk, Registry[i]).val)) =>
        LET held(p) == ReadEntry(disk, Entry(p)).val
            distinct == {held(p) : p \in Paths}
            tag == strip(call.expected_tag.v)
        IN  IF Cardinality(distinct) > 1
            THEN /\ ~ret.ok
                 /\ ret.err = "Version mismatch detected across files"
                 /\ Len(ret.report) = Cardinality(distinct)
                 /\ \A k \in 1..Len(ret.report) :
                        /\ ret.report[k].version \in distinct
                        /\ Range(ret.report[k].files) =
                                {p \in Paths : held(p) = ret.report[k].version}
                        /\ \A j \in 1..(k - 1) :
                                StrLess(ret.report[j].version, ret.report[k].version)
                        /\ \A m, n \in 1..Len(ret.report[k].files) :
                                m < n => StrLess(PathChars(ret.report[k].files[m]),
                                                 PathChars(ret.report[k].files[n]))
            ELSE LET V == held(Registry[1].path)
                 IN  IF ~call.expected_tag.some THEN ret = Ok(V)
                     ELSE IF ~WellFormedTag(tag)
                          THEN ret = Err("Invalid tag")
                     ELSE IF tag # <<"v">> \o V THEN ret = Err("Tag/version mismatch")
                     ELSE ret = Ok(V)

\* A report whose first version is not the version of the first registry file, and
\* whose files are not in registry order.
C7_Witness ==
    /\ CheckDone /\ ~ret.ok
    /\ ret.err = "Version mismatch detected across files"
    /\ ret.report[1].version # ReadEntry(disk, Registry[1]).val
    /\ ret.report[1].files[1] = "Cargo.lock"

TargetDone == pc = "done" /\ call.op = "assert_native_target"

\* C8: the target validator exits 0 exactly when the target OS is known and equal to
\* the host OS and the target arch equals the host arch; otherwise it exits 1 and
\* lists, once each and in this order, exactly the errors whose condition holds:
\* unknown target OS, OS mismatch, arch mismatch.
C8_NativeTarget ==
    TargetDone =>
        LET unknown_os == target_os(call.target) = UNKNOWN
            os_differs == target_os(call.target) # host_os(host)
            arch_differs == target_arch(call.target) # host_arch(host)
            listed == {ret.errors[i].kind : i \in 1..Len(ret.errors)}
        IN  /\ ret.code = 0 <=> (~unknown_os /\ ~os_differs /\ ~arch_differs)
            /\ ret.code \in {0, 1}
            /\ ("unsupported target OS in triple" \in listed) <=> unknown_os
            /\ ("target OS does not match runner OS" \in listed) <=> os_differs
            /\ ("target arch does not match runner arch" \in listed) <=> arch_differs
            /\ Cardinality(listed) = Len(ret.errors)
            /\ (call.target = <<"x","8","6","_","6","4","-","p","c","-","w","i","n","d","o","w","s","-","m","s","v","c">>
                    /\ host = [system |-> <<"L","i","n","u","x">>, machine |-> <<"x","8","6","_","6","4">>])
                => ret.errors = <<ErrOSMismatch(<<"w","i","n","d","o","w","s">>, <<"l","i","n","u","x">>)>>

\* A target with an unknown OS and another arch on a host of a known OS: all three
\* errors are listed.
C8_Witness ==
    /\ TargetDone
    /\ ret.code = 1
    /\ Len(ret.errors) = 3

\* The two version locations of package-lock.json are both present and differ.
LocationsDiffer(file) ==
    /\ file.doc.packages.t = "dict"
    /\ file.doc.packages.root.t = "dict"
    /\ StrStrip(file.doc.version) # <<>>
    /\ StrStrip(file.doc.packages.root.version) # <<>>
    /\ StrStrip(file.doc.version) # StrStrip(file.doc.packages.root.version)

\* C9: when the two version locations of package-lock.json are both present and
\* differ, read_package_lock_version fails with the internal-mismatch error, and
\* run_check fails with an error of a reader, never with the invalid-semver, the
\* version-mismatch or a tag error: with the internal-mismatch error when the files
\* read before package-lock.json are read without error.
C9_InternalMismatchFirst ==
    (CheckDone /\ LocationsDiffer(disk[PACKAGE_LOCK_FILE])) =>
        /\ read_package_lock_version(disk[PACKAGE_LOCK_FILE])
                = Err("package-lock internal mismatch")
        /\ ~ret.ok
        /\ ret.err \notin {"Invalid semver in file", "Version mismatch detected across files"}
                            \cup TagErrors
        /\ (\A i \in 1..Len(Registry) :
                Registry[i].format \in {"toml", "json"} => ReadEntry(disk, Registry[i]).ok)
            => ret = ErrIn("package-lock internal mismatch", PACKAGE_LOCK_FILE)

\* run_check fails with the internal-mismatch error on a tree whose package-lock.json
\* holds a top-level version that is no semver and a root version no other file has.
C9_Witness ==
    /\ CheckDone /\ ~ret.ok
    /\ ret.err = "package-lock internal mismatch"
    /\ ~SEMVER_RE(StrStrip(disk[PACKAGE_LOCK_FILE].doc.version))
    /\ StrStrip(disk[PACKAGE_LOCK_FILE].doc.packages.root.version)
            # ReadEntry(disk, Registry[1]).val

\* C10: run_set with a version input that is no semver, one leading "v" taken off,
\* fails before a writer runs and no file is modified; the tag is validated after
\* all writers ran: a tag error is raised only then, and when all writers ran every
\* file holds the new version, also when the tag is malformed or is not "v" + the
\* new version, and then run_set fails with the tag error.
C10_ValidationOrder ==
    /\ (pc \in {"write", "check"} \/ (SetDone /\ step > 0))
            => SEMVER_RE(Candidate(call.version_input))
    /\ (SetDone /\ ~SEMVER_RE(Candidate(call.version_input))) =>
            /\ ret = Err("Invalid version")
            /\ disk = call.before
            /\ changed_files = <<>>
    /\ (SetDone /\ ~ret.ok /\ ret.err \in TagErrors) => AllWritersRan
    /\ (SetDone /\ AllWritersRan) =>
        LET v == Candidate(call.version_input)
            tag == strip(call.expected_tag.v)
        IN  /\ \A i \in 1..Len(Registry) :
                    StoredIs(Registry[i], disk[Registry[i].path], v)
            /\ (call.expected_tag.some /\ ~WellFormedTag(tag))
                    => ret = Err("Invalid tag")
            /\ (call.expected_tag.some /\ WellFormedTag(tag) /\ tag # <<"v">> \o v)
                    => ret = Err("Tag/version mismatch")

\* A set with a valid version and a tag that does not name it: files were written,
\* the set failed on the tag.
C10_Witness ==
    /\ SetDone /\ ~ret.ok
    /\ ret.err = "Tag/version mismatch"
    /\ AllWritersRan
    /\ disk # call.before
    /\ Len(changed_files) = Len(Registry)

====
